---- MODULE Spec2Model ----
(***************************************************************************)
(* A model of tech_digest_agent.py: the bounded-retry generation loop of   *)
(* TechDigestAgent.run, the WeChatPublisher client, the top-level          *)
(* daily_task / main entry point, and the markup normalizer                *)
(* _clean_html_for_wechat (character level).                               *)
(***************************************************************************)
EXTENDS Integers, Sequences, FiniteSets, TLC

VARIABLES
    \* ---- command line and environment (main, daily_task)
    args,           \* [schedule, test]: the parsed command-line flags
    creds,          \* WECHAT_APP_ID and WECHAT_APP_SECRET are both set
    main_pc,        \* position of main()
    exit_code,      \* the status the process exits with (0 unless changed)
    runs,           \* daily_task invocations started so far
    task_pc,        \* position of the current daily_task
    task_failed,    \* daily_task's except clause logged a failure
    \* ---- TechDigestAgent.run
    run_pc,         \* position of run()
    max_retries,    \* run's parameter
    attempt,        \* loop variable of the retry loop
    calls,          \* generate_digest calls made by this run
    digest,         \* the local variable digest
    hist,           \* what generate_digest did on each call of this run
    error_logged,   \* the "no valid HTML" error of line 554 was logged
    md_written,     \* the .md file was written
    html_written,   \* the .html file was written
    ret,            \* the dict run() returned
    \* ---- WeChatPublisher
    access_token,   \* self.access_token
    token_fetches,  \* requests made to the token endpoint by this instance
    api_log,        \* requests made to the three publishing endpoints
    call_result,    \* outcome of the last publisher method call
    thumb_media_id, \* local of WeChatPublisher.run
    draft_media_id, \* local of WeChatPublisher.run
    submit_resp,    \* the JSON the submit endpoint answered in publish()
    pub_record,     \* the Publish Record WeChatPublisher.run returned
    \* ---- _clean_html_for_wechat
    norm_in,        \* the argument html
    norm_out,       \* the returned string
    norm_twice,     \* what the function returns for its own output
    norm_pc,        \* "input" before the call, "done" after it, "twice"
                    \* once the output was normalized again
    \* ---- extract_keywords_from_markdown
    kw_in,          \* the markdown argument, a sequence of characters
    kw_out,         \* the returned list of keywords
    kw_pc           \* "input" before the call, "done" after it

cli_vars == <<args, creds, main_pc, exit_code, runs, task_pc, task_failed>>
run_vars == <<run_pc, max_retries, attempt, calls, digest, hist,
              error_logged, md_written, html_written, ret>>
pub_vars == <<access_token, token_fetches, api_log, call_result,
              thumb_media_id, draft_media_id, submit_resp, pub_record>>
norm_vars == <<norm_in, norm_out, norm_twice, norm_pc>>
kw_vars == <<kw_in, kw_out, kw_pc>>
vars == <<cli_vars, run_vars, pub_vars, norm_vars, kw_vars>>

----------------------------------------------------------------------------
(* Bounds of the model *)

\* largest max_retries a run is started with when run() is checked alone
MaxRetries == 3
\* daily_task invocations the scheduled loop is followed for
MaxRuns == 2
\* requests one WeChatPublisher instance may have sent before its last
\* method call starts, when the client is checked alone
MaxRequests == 3

(* Program constants *)

\* run(self, max_retries: int = 3)
DefaultMaxRetries == 3
\* the length threshold of the validity checks
MinHtmlLen == 500
\* the errcode the submit endpoint answers for "not authorized to publish"
ErrUnauthorized == 48001

----------------------------------------------------------------------------
(* JSON / Python scalars.  A value is encoded as a string: "null" is None  *)
(* or an absent key, "s:..." a str, "n:..." a number.                      *)

None == "null"
\* a key the JSON object does not hold
Absent == "absent"

\* Python truthiness of an encoded scalar: None, "" and 0 are falsy
Truthy(v) == v \notin {"null", "s:", "n:0"}

\* dict.get(key): None for a key that is absent
Get(v) == IF v = Absent THEN None ELSE v

----------------------------------------------------------------------------
(* TechDigestAgent.run *)

NoDigest == [present |-> FALSE, html |-> 0, by |-> 0]
NoRet == [returned |-> FALSE, html |-> 0, by |-> 0,
          md_path |-> None, html_path |-> None]

\* lengths of the html generate_digest may return ("" has length 0)
HtmlLens == {0, MinHtmlLen - 1, MinHtmlLen, MinHtmlLen + 1}

\* what one generate_digest call may do: raise, or return html of a length
Outcomes == {[raised |-> TRUE, html |-> 0]}
            \cup {[raised |-> FALSE, html |-> n] : n \in HtmlLens}

\* a str of length n is truthy iff it is not empty
StrTruthy(n) == n > 0

\* line 542: digest.get("html") and len(digest["html"]) > 500
HtmlAccepted(d) == d.present /\ StrTruthy(d.html) /\ d.html > MinHtmlLen

\* line 553: not digest.get("html") or len(digest["html"]) < 500
HtmlShortfall(d) == ~(d.present /\ StrTruthy(d.html)) \/ d.html < MinHtmlLen

\* (variant: a loop without the break)
LoopGoesOnNoBreakM(ok, att, n) == att < n
\* lines 538-544: the for loop goes on unless the attempt was accepted
\* (break) or the range is exhausted
LoopGoesOn(ok, att, n) == ~ok /\ att < n

\* (variant: an exception is re-raised on whichever attempt it occurs)
ReraiseAlwaysM(att, n) == TRUE
\* lines 548-551: an exception is re-raised on the last attempt only
Reraise(att, n) == att >= n

\* lines 567-573: the html file is written, and html_path set, iff
\* digest["html"] is truthy
HtmlPersisted(d) == StrTruthy(d.html)

RunInit(n) ==
    /\ run_pc = "fetch"
    /\ max_retries = n
    /\ attempt = 1
    /\ calls = 0
    /\ digest = NoDigest
    /\ hist = <<>>
    /\ error_logged = FALSE
    /\ md_written = FALSE
    /\ html_written = FALSE
    /\ ret = NoRet

\* a fresh call of run(max_retries = n)
RunReset(n) ==
    /\ run_pc' = "fetch"
    /\ max_retries' = n
    /\ attempt' = 1
    /\ calls' = 0
    /\ digest' = NoDigest
    /\ hist' = <<>>
    /\ error_logged' = FALSE
    /\ md_written' = FALSE
    /\ html_written' = FALSE
    /\ ret' = NoRet

\* lines 530-534: the five source fetches; an API error propagates
RunFetch ==
    /\ run_pc = "fetch"
    /\ \E ok \in BOOLEAN :
         run_pc' = IF ok THEN "loop" ELSE "raised"
    /\ UNCHANGED <<max_retries, attempt, calls, digest, hist, error_logged,
                   md_written, html_written, ret>>

\* lines 538-551: one iteration of the retry loop
RunAttempt ==
    /\ run_pc = "loop"
    /\ attempt <= max_retries
    /\ \E o \in Outcomes :
         /\ calls' = calls + 1
         /\ hist' = Append(hist, o)
         /\ IF o.raised
              THEN /\ digest' = digest
                   /\ IF Reraise(attempt, max_retries)
                        THEN run_pc' = "raised" /\ attempt' = attempt
                        ELSE run_pc' = "loop" /\ attempt' = attempt + 1
              ELSE LET d == [present |-> TRUE, html |-> o.html, by |-> attempt]
                   IN /\ digest' = d
                      /\ IF LoopGoesOn(HtmlAccepted(d), attempt, max_retries)
                           THEN run_pc' = "loop" /\ attempt' = attempt + 1
                           ELSE run_pc' = "persist" /\ attempt' = attempt
    /\ UNCHANGED <<max_retries, error_logged, md_written, html_written, ret>>

\* lines 553-575: the shortfall check, the two files, the returned dict
RunFinish ==
    /\ run_pc = "persist"
    /\ digest.present
    /\ error_logged' = HtmlShortfall(digest)
    /\ md_written' = TRUE
    /\ html_written' = HtmlPersisted(digest)
    /\ ret' = [returned |-> TRUE, html |-> digest.html, by |-> digest.by,
               md_path |-> "s:md",
               html_path |-> IF HtmlPersisted(digest) THEN "s:html" ELSE None]
    /\ run_pc' = "returned"
    /\ UNCHANGED <<max_retries, attempt, calls, digest, hist>>

----------------------------------------------------------------------------
(* WeChatPublisher *)

NoResult == [op |-> "none", raised |-> FALSE, token_failed |-> FALSE,
             value |-> None]
NoResp == [errcode |-> -1, publish_id |-> Absent]
NoRecord == [returned |-> FALSE, thumb_media_id |-> None,
             draft_media_id |-> None, publish_id |-> None, status |-> "none"]

\* "access_token" of the token endpoint's JSON: absent (an error reply), or a
\* value, which may be the empty string
TokenValues == {Absent, "s:", "s:T1", "s:T2"}
\* "media_id" of the upload and draft replies
MediaValues == {Absent, "s:M1", "s:M2"}
\* "errcode" of the submit reply (-1: the key is absent)
ErrCodes == {-1, 0, ErrUnauthorized, ErrUnauthorized + 1}
\* "publish_id" of the submit reply
PublishIds == {Absent, "s:", "n:0", "s:X", "n:7"}
SubmitResponses == [errcode : ErrCodes, publish_id : PublishIds]

\* (variant: no cache check, every call fetches)
NeedsFetchAlwaysM(tok) == TRUE
\* line 588: if self.access_token: return self.access_token
NeedsFetch(tok) == ~Truthy(tok)

\* line 595: "access_token" in result
FetchSucceeds(tr) == tr # Absent

\* lines 586-600, get_access_token with the endpoint answering tr:
\* whether it raises, the token it returns, and what it leaves cached
TokenRaises(tok, tr) == NeedsFetch(tok) /\ ~FetchSucceeds(tr)
TokenReturned(tok, tr) == IF NeedsFetch(tok) THEN tr ELSE tok
TokenCached(tok, tr) ==
    IF NeedsFetch(tok) /\ FetchSucceeds(tr) THEN tr ELSE tok

CallGetAccessToken(tr) ==
    /\ token_fetches' = token_fetches + (IF NeedsFetch(access_token) THEN 1 ELSE 0)
    /\ access_token' = TokenCached(access_token, tr)

\* (variant: a reply without "media_id" is not an error, its value is None)
MediaCallNeverRaisesM(op, arg, tr, mr) ==
    /\ CallGetAccessToken(tr)
    /\ IF TokenRaises(access_token, tr)
         THEN /\ api_log' = api_log
              /\ call_result' = [op |-> op, raised |-> TRUE,
                                 token_failed |-> TRUE, value |-> None]
         ELSE /\ api_log' = Append(api_log,
                     [op |-> op, token |-> TokenReturned(access_token, tr),
                      arg |-> arg])
              /\ call_result' = [op |-> op, raised |-> FALSE,
                                 token_failed |-> FALSE,
                                 value |-> Get(mr)]
\* lines 653-667 and 669-700: upload_image and create_draft succeed iff the
\* reply holds "media_id"
MediaCall(op, arg, tr, mr) ==
    /\ CallGetAccessToken(tr)
    /\ IF TokenRaises(access_token, tr)
         THEN /\ api_log' = api_log
              /\ call_result' = [op |-> op, raised |-> TRUE,
                                 token_failed |-> TRUE, value |-> None]
         ELSE /\ api_log' = Append(api_log,
                     [op |-> op, token |-> TokenReturned(access_token, tr),
                      arg |-> arg])
              /\ call_result' = [op |-> op, raised |-> (mr = Absent),
                                 token_failed |-> FALSE,
                                 value |-> Get(mr)]

UploadImage(path, tr, mr) == MediaCall("upload", path, tr, mr)
CreateDraft(thumb, tr, mr) == MediaCall("draft", thumb, tr, mr)

\* lines 710-717: the three outcomes of the submit reply
PublishRaises(sr) == sr.errcode # 0 /\ sr.errcode # ErrUnauthorized
\* (variant: the reply's publish_id is returned whatever the errcode)
PublishValueIgnoresErrcodeM(sr) == Get(sr.publish_id)
\* lines 710-715: the value publish returns when it does not raise
PublishValue(sr) == IF sr.errcode = 0 THEN Get(sr.publish_id) ELSE None

\* lines 702-717: publish
Publish(draft, tr, sr) ==
    /\ CallGetAccessToken(tr)
    /\ IF TokenRaises(access_token, tr)
         THEN /\ api_log' = api_log
              /\ submit_resp' = submit_resp
              /\ call_result' = [op |-> "submit", raised |-> TRUE,
                                 token_failed |-> TRUE, value |-> None]
         ELSE /\ api_log' = Append(api_log,
                     [op |-> "submit", token |-> TokenReturned(access_token, tr),
                      arg |-> draft])
              /\ submit_resp' = sr
              /\ call_result' = [op |-> "submit", raised |-> PublishRaises(sr),
                                 token_failed |-> FALSE,
                                 value |-> IF PublishRaises(sr) THEN None
                                           ELSE PublishValue(sr)]

\* (variant: "is not None" in place of truthiness)
RunStatusNotNoneM(publish_id) ==
    IF publish_id # None THEN "published" ELSE "draft_created"
\* line 739: "published" if publish_id else "draft_created"
RunStatus(publish_id) ==
    IF Truthy(publish_id) THEN "published" ELSE "draft_created"

PubInit ==
    /\ access_token = None
    /\ token_fetches = 0
    /\ api_log = <<>>
    /\ call_result = NoResult
    /\ thumb_media_id = None
    /\ draft_media_id = None
    /\ submit_resp = NoResp
    /\ pub_record = NoRecord

\* lines 581-584: a new WeChatPublisher()
PubReset ==
    /\ access_token' = None
    /\ token_fetches' = 0
    /\ api_log' = <<>>
    /\ call_result' = NoResult
    /\ thumb_media_id' = None
    /\ draft_media_id' = None
    /\ submit_resp' = NoResp
    /\ pub_record' = NoRecord


----------------------------------------------------------------------------
(* WeChatPublisher.run, as daily_task drives it (lines 719-740, 794-801) *)

\* lines 724-727: the cover is drawn and uploaded; an exception ends the task
\* in daily_task's except clause
TaskUpload ==
    /\ task_pc = "pub_upload"
    /\ \E tr \in TokenValues, mr \in MediaValues : UploadImage("s:cover", tr, mr)
    /\ IF call_result'.raised
         THEN task_pc' = "done" /\ task_failed' = TRUE
              /\ thumb_media_id' = thumb_media_id
         ELSE task_pc' = "pub_draft" /\ task_failed' = task_failed
              /\ thumb_media_id' = call_result'.value
    /\ UNCHANGED <<args, creds, main_pc, exit_code, runs, draft_media_id,
                   submit_resp, pub_record>>
    /\ UNCHANGED <<run_vars, norm_vars, kw_vars>>

\* line 730
TaskCreateDraft ==
    /\ task_pc = "pub_draft"
    /\ \E tr \in TokenValues, mr \in MediaValues :
         CreateDraft(thumb_media_id, tr, mr)
    /\ IF call_result'.raised
         THEN task_pc' = "done" /\ task_failed' = TRUE
              /\ draft_media_id' = draft_media_id
         ELSE task_pc' = "pub_publish" /\ task_failed' = task_failed
              /\ draft_media_id' = call_result'.value
    /\ UNCHANGED <<args, creds, main_pc, exit_code, runs, thumb_media_id,
                   submit_resp, pub_record>>
    /\ UNCHANGED <<run_vars, norm_vars, kw_vars>>

\* lines 733-740: the submit call and the returned Publish Record
TaskPublish ==
    /\ task_pc = "pub_publish"
    /\ \E tr \in TokenValues, sr \in SubmitResponses :
         Publish(draft_media_id, tr, sr)
    /\ task_pc' = "done"
    /\ IF call_result'.raised
         THEN task_failed' = TRUE /\ pub_record' = pub_record
         ELSE /\ task_failed' = task_failed
              /\ pub_record' = [returned |-> TRUE,
                                thumb_media_id |-> thumb_media_id,
                                draft_media_id |-> draft_media_id,
                                publish_id |-> call_result'.value,
                                status |-> RunStatus(call_result'.value)]
    /\ UNCHANGED <<args, creds, main_pc, exit_code, runs, thumb_media_id,
                   draft_media_id>>
    /\ UNCHANGED <<run_vars, norm_vars, kw_vars>>

----------------------------------------------------------------------------
(* daily_task and main *)

\* lines 787-803: whether daily_task hands the digest to the publisher
WantsPublish(c, html) == c /\ StrTruthy(html)

\* lines 775-784: daily_task starts, constructs the agent and calls run()
TaskStart ==
    /\ task_pc' = "gen"
    /\ task_failed' = FALSE
    /\ runs' = runs + 1
    /\ RunReset(DefaultMaxRetries)
    /\ PubReset

\* lines 784-808: run() came back to daily_task, by return or by exception
TaskAfterRun ==
    /\ task_pc = "gen"
    /\ \/ /\ run_pc = "raised"
          /\ task_pc' = "done"
          /\ task_failed' = TRUE
       \/ /\ run_pc = "returned"
          /\ task_failed' = task_failed
          /\ task_pc' = IF WantsPublish(creds, ret.html) THEN "pub_upload"
                                                         ELSE "done"
    /\ UNCHANGED <<args, creds, main_pc, exit_code, runs>>
    /\ UNCHANGED <<run_vars, pub_vars, norm_vars, kw_vars>>

\* lines 816-838: main dispatches on the flags, --schedule first
ModeOf(a) ==
    IF a.schedule THEN "schedule" ELSE IF a.test THEN "test" ELSE "oneshot"

MainDispatch ==
    /\ main_pc = "start"
    /\ \/ /\ ModeOf(args) = "schedule"
          /\ main_pc' = "sched_loop"
          /\ UNCHANGED <<runs, task_pc, task_failed, run_vars, pub_vars>>
       \/ /\ ModeOf(args) = "test"
          /\ main_pc' = "test_run"
          /\ RunReset(DefaultMaxRetries)
          /\ UNCHANGED <<runs, task_pc, task_failed, pub_vars>>
       \/ /\ ModeOf(args) = "oneshot"
          /\ main_pc' = "oneshot"
          /\ TaskStart
    /\ UNCHANGED <<args, creds, exit_code, norm_vars, kw_vars>>

\* lines 823-825: run_pending starts the job when it is due
SchedTrigger ==
    /\ main_pc = "sched_loop"
    /\ task_pc \in {"none", "done"}
    /\ runs < MaxRuns
    /\ TaskStart
    /\ UNCHANGED <<args, creds, main_pc, exit_code, norm_vars, kw_vars>>

\* the exit status of the process: 0 when main returns, 1 when an exception
\* leaves main
ExitStatus(raised, failed) == IF raised THEN 1 ELSE 0

\* line 838 and the end of main: daily_task returned
MainExitOneShot ==
    /\ main_pc = "oneshot"
    /\ task_pc = "done"
    /\ main_pc' = "exited"
    /\ exit_code' = ExitStatus(FALSE, task_failed)
    /\ UNCHANGED <<args, creds, runs, task_pc, task_failed>>
    /\ UNCHANGED <<run_vars, pub_vars, norm_vars, kw_vars>>

\* lines 830-834: test mode; an exception of run() is not caught
MainExitTest ==
    /\ main_pc = "test_run"
    /\ run_pc \in {"returned", "raised"}
    /\ main_pc' = "exited"
    /\ exit_code' = ExitStatus(run_pc = "raised", FALSE)
    /\ UNCHANGED <<args, creds, runs, task_pc, task_failed>>
    /\ UNCHANGED <<run_vars, pub_vars, norm_vars, kw_vars>>

\* run()'s steps inside the process
AgentStep ==
    /\ \/ RunFetch
       \/ RunAttempt
       \/ RunFinish
    /\ UNCHANGED <<cli_vars, pub_vars, norm_vars, kw_vars>>

NormIdle ==
    /\ norm_in = <<>>
    /\ norm_out = <<>>
    /\ norm_twice = <<>>
    /\ norm_pc = "idle"

KwIdle ==
    /\ kw_in = <<>>
    /\ kw_out = <<>>
    /\ kw_pc = "idle"

CliIdle ==
    /\ args = [schedule |-> FALSE, test |-> FALSE]
    /\ creds = FALSE
    /\ main_pc = "idle"
    /\ exit_code = 0
    /\ runs = 0
    /\ task_pc = "none"
    /\ task_failed = FALSE

RunIdle ==
    /\ run_pc = "idle"
    /\ max_retries = DefaultMaxRetries
    /\ attempt = 1
    /\ calls = 0
    /\ digest = NoDigest
    /\ hist = <<>>
    /\ error_logged = FALSE
    /\ md_written = FALSE
    /\ html_written = FALSE
    /\ ret = NoRet

(* The whole process: any flags, credentials set or not *)
Init ==
    /\ args \in [schedule : BOOLEAN, test : BOOLEAN]
    /\ creds \in BOOLEAN
    /\ main_pc = "start"
    /\ exit_code = 0
    /\ runs = 0
    /\ task_pc = "none"
    /\ task_failed = FALSE
    /\ RunIdle
    /\ PubInit
    /\ NormIdle
    /\ KwIdle

Next ==
    \/ MainDispatch
    \/ SchedTrigger
    \/ AgentStep
    \/ TaskAfterRun
    \/ TaskUpload
    \/ TaskCreateDraft
    \/ TaskPublish
    \/ MainExitOneShot
    \/ MainExitTest

Spec == Init /\ [][Next]_vars

(* TechDigestAgent.run alone, for every max_retries in 1..MaxRetries *)
InitRun ==
    /\ CliIdle
    /\ \E n \in 1..MaxRetries : RunInit(n)
    /\ PubInit
    /\ NormIdle
    /\ KwIdle

NextRun == AgentStep

SpecRun == InitRun /\ [][NextRun]_vars

(* One WeChatPublisher instance alone: its three methods called in any     *)
(* order, with any arguments, against any replies                          *)
RequestsSent == token_fetches + Len(api_log)

MediaIds == MediaValues \ {Absent}

PubCallUpload ==
    /\ RequestsSent < MaxRequests
    /\ \E tr \in TokenValues, mr \in MediaValues : UploadImage("s:cover", tr, mr)
    /\ UNCHANGED <<thumb_media_id, draft_media_id, submit_resp, pub_record>>
    /\ UNCHANGED <<cli_vars, run_vars, norm_vars, kw_vars>>

PubCallCreateDraft ==
    /\ RequestsSent < MaxRequests
    /\ \E thumb \in MediaIds, tr \in TokenValues, mr \in MediaValues :
         CreateDraft(thumb, tr, mr)
    /\ UNCHANGED <<thumb_media_id, draft_media_id, submit_resp, pub_record>>
    /\ UNCHANGED <<cli_vars, run_vars, norm_vars, kw_vars>>

PubCallPublish ==
    /\ RequestsSent < MaxRequests
    /\ \E draft \in MediaIds, tr \in TokenValues, sr \in SubmitResponses :
         Publish(draft, tr, sr)
    /\ UNCHANGED <<thumb_media_id, draft_media_id, pub_record>>
    /\ UNCHANGED <<cli_vars, run_vars, norm_vars, kw_vars>>

InitPub ==
    /\ CliIdle
    /\ RunIdle
    /\ PubInit
    /\ NormIdle
    /\ KwIdle

NextPub ==
    \/ PubCallUpload
    \/ PubCallCreateDraft
    \/ PubCallPublish

SpecPub == InitPub /\ [][NextPub]_vars

----------------------------------------------------------------------------
(* Properties of the retry loop *)

\* the markup one generate_digest call returned passes the length threshold
Passing(o) == ~o.raised /\ o.html > MinHtmlLen

\* every attempt of the loop was made, each returned, and none passed
AllAttemptsShort ==
    /\ Len(hist) = max_retries
    /\ \A i \in 1..Len(hist) : ~hist[i].raised /\ ~Passing(hist[i])

\* C1: if no attempt produces markup that passes the threshold, run does not
\* raise, the .md document is still written, and daily_task makes no
\* publisher call (no upload, no draft, no submit) for that run.
C1_ShortfallSkipsPublish ==
    AllAttemptsShort =>
        /\ run_pc \in {"persist", "returned"}
        /\ (run_pc = "returned" => md_written)
        /\ api_log = <<>>

\* C2: if attempt k is the first whose markup passes, generate_digest is
\* called exactly k times, the loop stops there, and the digest run returns
\* is the one attempt k produced.
C2_FirstPassAccepted ==
    \A k \in 1..Len(hist) :
        (Passing(hist[k]) /\ \A j \in 1..(k - 1) : ~Passing(hist[j])) =>
            /\ calls = k
            /\ Len(hist) = k
            /\ run_pc \in {"persist", "returned"}
            /\ digest = [present |-> TRUE, html |-> hist[k].html, by |-> k]
            /\ (run_pc = "returned" =>
                    ret.by = k /\ ret.html = hist[k].html)

\* fail, fail, pass under max_retries = 3: three calls, attempt 3 returned
C2_Witness ==
    /\ run_pc = "returned"
    /\ max_retries = 3
    /\ calls = 3
    /\ \A j \in 1..2 : ~hist[j].raised /\ ~Passing(hist[j])
    /\ Passing(hist[3])
    /\ ret.by = 3

\* C3: with a generator that never passes and never raises under
\* max_retries = N, run makes exactly N calls and returns the last result
\* with its markup flagged absent (no html_path in the returned record).
C3_NeverPassFlagsAbsent ==
    (run_pc = "returned" /\ AllAttemptsShort) =>
        /\ calls = max_retries
        /\ ret.by = max_retries
        /\ ret.html_path = None

----------------------------------------------------------------------------
(* Properties of the publisher *)

\* a publish id that is there: not missing, not "", not 0
NonEmptyId(x) == x \notin {Absent, None, "s:", "n:0"}

\* C4: the record's status is "published" only if the submit step yielded a
\* publish id, otherwise "draft_created": errcode 48001 gives "draft_created"
\* with publish_id None, and errcode 0 with a non-empty publish_id X gives
\* "published" with publish_id X, whatever the draft id.
C4_StatusFollowsSubmit ==
    pub_record.returned =>
        /\ pub_record.status \in {"published", "draft_created"}
        /\ (pub_record.status = "published" => NonEmptyId(pub_record.publish_id))
        /\ (submit_resp.errcode = ErrUnauthorized =>
                /\ pub_record.status = "draft_created"
                /\ pub_record.publish_id = None)
        /\ (submit_resp.errcode = 0 /\ NonEmptyId(submit_resp.publish_id) =>
                /\ pub_record.status = "published"
                /\ pub_record.publish_id = submit_resp.publish_id)
        /\ pub_record.draft_media_id = draft_media_id

C4_Witness ==
    /\ pub_record.returned
    /\ submit_resp = [errcode |-> 0, publish_id |-> "s:X"]
    /\ pub_record.status = "published"
    /\ pub_record.publish_id = "s:X"
    /\ pub_record.draft_media_id = "s:M2"

\* C5 as stated: a returned record has status "draft_created" if and only if
\* the submit reply was the authorization error 48001.
C5_DraftIffUnauthorized ==
    pub_record.returned =>
        (pub_record.status = "draft_created"
            <=> submit_resp.errcode = ErrUnauthorized)

\* C5 as amended: a returned record has status "draft_created" whenever the
\* submit reply was the authorization error 48001, and also when the reply
\* had errcode 0 but no non-empty publish_id; it is "published" exactly when
\* the reply had errcode 0 and a non-empty publish_id.
C5_DraftIffNoPublishId ==
    pub_record.returned =>
        /\ submit_resp.errcode \in {0, ErrUnauthorized}
        /\ (submit_resp.errcode = ErrUnauthorized =>
                pub_record.status = "draft_created")
        /\ (pub_record.status = "published"
                <=> (submit_resp.errcode = 0
                     /\ NonEmptyId(submit_resp.publish_id)))
        /\ (pub_record.status = "draft_created"
                <=> (submit_resp.errcode = ErrUnauthorized
                     \/ ~NonEmptyId(submit_resp.publish_id)))

C5_Witness ==
    /\ pub_record.returned
    /\ submit_resp.errcode = 0
    /\ submit_resp.publish_id = Absent
    /\ pub_record.status = "draft_created"

\* C8 as stated: once a token fetch has succeeded (the reply held
\* "access_token"), the token endpoint is never requested again, the cached
\* token never changes, every later request carries it, and a failed fetch
\* leaves the cached token unset.
C8_FetchedOnce ==
    [][ /\ (access_token # None =>
                /\ token_fetches' = token_fetches
                /\ access_token' = access_token
                /\ (Len(api_log') > Len(api_log) =>
                        api_log'[Len(api_log')].token = access_token))
        /\ (call_result'.token_failed =>
                access_token' = access_token /\ ~Truthy(access_token'))
      ]_vars

\* C8 as amended: once a token fetch has returned a non-empty token, the
\* token endpoint is never requested again, the cached token never changes
\* and every later request carries it; a failed fetch leaves the cached token
\* as it was, not usable. (A reply whose "access_token" is empty is stored
\* but does not stop the next call from fetching again.)
C8_NonEmptyTokenFetchedOnce ==
    [][ /\ (Truthy(access_token) =>
                /\ token_fetches' = token_fetches
                /\ access_token' = access_token
                /\ (Len(api_log') > Len(api_log) =>
                        api_log'[Len(api_log')].token = access_token))
        /\ (call_result'.token_failed =>
                access_token' = access_token /\ ~Truthy(access_token'))
        /\ (~Truthy(access_token) => token_fetches' = token_fetches + 1)
      ]_vars

\* one fetch, then two requests carrying the fetched token
C8_Witness ==
    /\ Truthy(access_token)
    /\ token_fetches = 1
    /\ Len(api_log) >= 2
    /\ \A i \in 1..Len(api_log) : api_log[i].token = access_token

----------------------------------------------------------------------------
(* Properties of the entry point *)

\* C6: in the one-shot path an exception inside daily_task makes the
\* process exit with status 1; it exits with 0 only when the task succeeded.
C6_FailureExitsOne ==
    (main_pc = "exited" /\ ~args.schedule /\ ~args.test) =>
        (exit_code = (IF task_failed THEN 1 ELSE 0))

\* C7: with --test among the flags, whatever the others, the process never
\* performs a publisher operation.
C7_TestNeverPublishes ==
    args.test => api_log = <<>>

----------------------------------------------------------------------------
(* Strings are sequences of one-character strings.  The literals of        *)
(* _clean_html_for_wechat: *)

S_ul == <<"<", "u", "l">>
S_ol == <<"<", "o", "l">>
S_li == <<"<", "l", "i">>
S_li_end == <<"<", "/", "l", "i", ">">>
S_ul_end == <<"<", "/", "u", "l", ">">>
S_ol_end == <<"<", "/", "o", "l", ">">>
S_th == <<"<", "t", "h">>
S_ead == <<"e", "a", "d">>
S_th_end == <<"<", "/", "t", "h", ">">>
S_table == <<"<", "t", "a", "b", "l", "e">>
S_thead == <<"<", "t", "h", "e", "a", "d">>
S_thead_tag == <<"<", "t", "h", "e", "a", "d", ">">>
S_tr == <<"<", "t", "r">>
S_tr_end == <<"<", "/", "t", "r", ">">>
S_thead_end == <<"<", "/", "t", "h", "e", "a", "d", ">">>
S_tbody_tag == <<"<", "t", "b", "o", "d", "y", ">">>
S_tbody_end == <<"<", "/", "t", "b", "o", "d", "y", ">">>
S_table_end == <<"<", "/", "t", "a", "b", "l", "e", ">">>
S_background == <<"b", "a", "c", "k", "g", "r", "o", "u", "n", "d">>
S_style_attr == <<"s", "t", "y", "l", "e", "=", "\"">>
S_style_bg == <<"s", "t", "y", "l", "e", "=", "\"", "b", "a", "c", "k", "g", "r", "o", "u", "n", "d", ":", " ", "#", "6", "6", "7", "e", "e", "a", ";", " ">>
S_th_style_bg == <<"<", "t", "h", " ", "s", "t", "y", "l", "e", "=", "\"", "b", "a", "c", "k", "g", "r", "o", "u", "n", "d", ":", " ", "#", "6", "6", "7", "e", "e", "a", ";", "\"">>

UpperLetters == <<"A", "B", "C", "D", "E", "F", "G", "H", "I", "J", "K", "L", "M",
                  "N", "O", "P", "Q", "R", "S", "T", "U", "V", "W", "X", "Y", "Z">>
LowerLetters == <<"a", "b", "c", "d", "e", "f", "g", "h", "i", "j", "k", "l", "m",
                  "n", "o", "p", "q", "r", "s", "t", "u", "v", "w", "x", "y", "z">>

\* str.lower() on one character
LowerChar(c) ==
    IF \E i \in 1..26 : UpperLetters[i] = c
      THEN LowerLetters[CHOOSE i \in 1..26 : UpperLetters[i] = c]
      ELSE c

\* str.lower()
LowerStr(s) == [i \in 1..Len(s) |-> LowerChar(s[i])]

\* the characters \s matches
IsSpace(c) == c \in {" ", "\t", "\n", "\r", "\f"}

\* lit occurs in s at index i
StartsAt(s, i, lit) ==
    /\ i >= 1
    /\ i + Len(lit) - 1 <= Len(s)
    /\ \A k \in 1..Len(lit) : s[i + k - 1] = lit[k]

\* sub in s (Python's "in" on strings)
Contains(s, sub) == \E i \in 1..(Len(s) - Len(sub) + 1) : StartsAt(s, i, sub)

\* index of the first ">" at or after j, 0 when there is none: where
\* ([^>]*)> ends
FirstGt(s, j) ==
    LET P == {p \in j..Len(s) : s[p] = ">"}
    IN IF P = {} THEN 0 ELSE CHOOSE p \in P : \A q \in P : p <= q

\* index of the first character at or after j that \s does not match
\* (Len(s) + 1 when there is none): where \s+ ends
SkipSpace(s, j) ==
    LET P == {p \in j..Len(s) : ~IsSpace(s[p])}
    IN IF P = {} THEN Len(s) + 1 ELSE CHOOSE p \in P : \A q \in P : p <= q

\* the least element of a non-empty set of indices
Least(P) == CHOOSE p \in P : \A q \in P : p <= q

\* str.replace(old, new): every occurrence, left to right, not overlapping
RECURSIVE ReplaceFrom(_, _, _, _)
ReplaceFrom(s, i, old, new) ==
    LET M == {j \in i..Len(s) : StartsAt(s, j, old)}
    IN IF M = {} THEN SubSeq(s, i, Len(s))
       ELSE LET j == Least(M)
            IN SubSeq(s, i, j - 1) \o new
                 \o ReplaceFrom(s, j + Len(old), old, new)

Replace(s, old, new) == ReplaceFrom(s, 1, old, new)

\* a match of  l1([^>]*)>\s+l2  (attrs) or of  l1\s+l2  (no attrs, l1 ends
\* with ">") at index i: the index of the ">" that ends the left part and
\* the index of the last character matched; [left |-> 0] when none
WsMatch(s, i, l1, attrs, l2) ==
    IF ~StartsAt(s, i, l1) THEN [left |-> 0, last |-> 0]
    ELSE LET g == IF attrs THEN FirstGt(s, i + Len(l1)) ELSE i + Len(l1) - 1
             k == SkipSpace(s, g + 1)
         IN IF g # 0 /\ k > g + 1 /\ StartsAt(s, k, l2)
              THEN [left |-> g, last |-> k + Len(l2) - 1]
              ELSE [left |-> 0, last |-> 0]

\* re.sub of one whitespace rule: every match, left to right, is replaced
\* by its left part followed by l2
RECURSIVE SubWsFrom(_, _, _, _, _)
SubWsFrom(s, i, l1, attrs, l2) ==
    LET M == {j \in i..Len(s) : WsMatch(s, j, l1, attrs, l2).left # 0}
    IN IF M = {} THEN SubSeq(s, i, Len(s))
       ELSE LET m == WsMatch(s, Least(M), l1, attrs, l2)
            IN SubSeq(s, i, m.left) \o l2
                 \o SubWsFrom(s, m.last + 1, l1, attrs, l2)

SubWs(s, l1, attrs, l2) == SubWsFrom(s, 1, l1, attrs, l2)

\* (variant: no check for a background that is already there)
FixThBackgroundNoCheckM(th_tag) ==
    IF Contains(th_tag, S_style_attr)
      THEN Replace(th_tag, S_style_attr, S_style_bg)
      ELSE Replace(th_tag, S_th, S_th_style_bg)
\* lines 496-505: fix_th_background on the text of one match
FixThBackground(th_tag) ==
    IF Contains(LowerStr(th_tag), S_background) THEN th_tag
    ELSE IF Contains(th_tag, S_style_attr)
           THEN Replace(th_tag, S_style_attr, S_style_bg)
           ELSE Replace(th_tag, S_th, S_th_style_bg)

\* a match of  <th(?!ead)([^>]*)>  at index i: the index of its ">", or 0
ThMatch(s, i) ==
    IF StartsAt(s, i, S_th) /\ ~StartsAt(s, i + Len(S_th), S_ead)
      THEN FirstGt(s, i + Len(S_th))
      ELSE 0

\* line 508: re.sub(r'<th(?!ead)([^>]*)>', fix_th_background, html)
RECURSIVE SubThFrom(_, _)
SubThFrom(s, i) ==
    LET M == {j \in i..Len(s) : ThMatch(s, j) # 0}
    IN IF M = {} THEN SubSeq(s, i, Len(s))
       ELSE LET j == Least(M)
                g == ThMatch(s, j)
            IN SubSeq(s, i, j - 1) \o FixThBackground(SubSeq(s, j, g))
                 \o SubThFrom(s, g + 1)

SubTh(s) == SubThFrom(s, 1)

\* lines 489-493: whitespace between list tags
CleanLists(html) ==
    LET h1 == SubWs(html, S_ul, TRUE, S_li)
        h2 == SubWs(h1, S_li_end, FALSE, S_li)
        h3 == SubWs(h2, S_li_end, FALSE, S_ul_end)
        h4 == SubWs(h3, S_ol, TRUE, S_li)
    IN SubWs(h4, S_li_end, FALSE, S_ol_end)

\* lines 511-521: whitespace between table tags
CleanTables(html) ==
    LET h1 == SubWs(html, S_table, TRUE, S_thead)
        h2 == SubWs(h1, S_thead_tag, FALSE, S_tr)
        h3 == SubWs(h2, S_tr, TRUE, S_th)
        h4 == SubWs(h3, S_th_end, FALSE, S_th)
        h5 == SubWs(h4, S_th_end, FALSE, S_tr_end)
        h6 == SubWs(h5, S_tr_end, FALSE, S_thead_end)
        h7 == SubWs(h6, S_thead_end, FALSE, S_tbody_tag)
        h8 == SubWs(h7, S_tbody_tag, FALSE, S_tr)
        h9 == SubWs(h8, S_tr_end, FALSE, S_tr)
        h10 == SubWs(h9, S_tr_end, FALSE, S_tbody_end)
    IN SubWs(h10, S_tbody_end, FALSE, S_table_end)

\* lines 486-523
CleanHtmlForWechat(html) == CleanTables(SubTh(CleanLists(html)))

----------------------------------------------------------------------------
(* _clean_html_for_wechat alone, on markup built from these pieces *)

\* pieces an input is made of
MaxElems == 3

E_th == <<"<", "t", "h", ">">>
E_th_color ==
    <<"<", "t", "h", " ", "s", "t", "y", "l", "e", "=", "\"", "c", "o",
      "l", "o", "r", ":", " ", "w", "h", "i", "t", "e", "\"", ">">>
E_th_bg ==
    <<"<", "t", "h", " ", "s", "t", "y", "l", "e", "=", "\"", "B", "A",
      "C", "K", "G", "R", "O", "U", "N", "D", ":", " ", "R", "e", "d",
      "\"", ">">>
E_th_two_styles ==
    <<"<", "t", "h", " ", "d", "a", "t", "a", "-", "s", "t", "y", "l",
      "e", "=", "\"", "x", "\"", " ", "s", "t", "y", "l", "e", "=", "\"",
      "c", "\"", ">">>
E_thead == <<"<", "t", "h", "e", "a", "d", ">">>
E_tr == <<"<", "t", "r", ">">>
E_th_end == <<"<", "/", "t", "h", ">">>
E_space == <<"\n", " ">>
E_li == <<"<", "l", "i", ">">>
E_li_end == <<"<", "/", "l", "i", ">">>
E_p_bordered ==
    <<"<", "p", " ", "c", "l", "a", "s", "s", "=", "\"", "b", "o", "r",
      "d", "e", "r", "e", "d", "\"", ">">>

Elements == {E_th, E_th_color, E_th_bg, E_th_two_styles, E_thead, E_tr,
             E_th_end, E_space, E_li, E_li_end, E_p_bordered}

RECURSIVE Flatten(_)
Flatten(es) == IF es = <<>> THEN <<>> ELSE Head(es) \o Flatten(Tail(es))

\* generate_digest calls the normalizer on non-empty markup only (line 474)
NormInputs ==
    {Flatten(es) : es \in UNION {[1..n -> Elements] : n \in 1..MaxElems}}

InitNorm ==
    /\ CliIdle
    /\ RunIdle
    /\ PubInit
    /\ norm_in \in NormInputs
    /\ norm_out = <<>>
    /\ norm_twice = <<>>
    /\ norm_pc = "input"
    /\ KwIdle

\* line 475: html_content = self._clean_html_for_wechat(html_content)
NormClean ==
    /\ norm_pc = "input"
    /\ norm_out' = CleanHtmlForWechat(norm_in)
    /\ norm_pc' = "done"
    /\ UNCHANGED <<norm_in, norm_twice, cli_vars, run_vars, pub_vars, kw_vars>>

\* the function applied to the markup it returned
NormCleanAgain ==
    /\ norm_pc = "done"
    /\ norm_twice' = CleanHtmlForWechat(norm_out)
    /\ norm_pc' = "twice"
    /\ UNCHANGED <<norm_in, norm_out, cli_vars, run_vars, pub_vars, kw_vars>>

NextNorm ==
    \/ NormClean
    \/ NormCleanAgain

SpecNorm == InitNorm /\ [][NextNorm]_vars

----------------------------------------------------------------------------
(* Properties of the normalizer *)

Digits == {"0", "1", "2", "3", "4", "5", "6", "7", "8", "9"}

\* the characters of a word, as \b sees them
IsWordChar(c) ==
    \/ \E i \in 1..26 : c = UpperLetters[i] \/ c = LowerLetters[i]
    \/ c \in Digits
    \/ c = "_"

\* the indices where w (lower case) occurs in s, in any case, as a whole word
WordAt(s, w) ==
    {i \in 1..Len(s) :
        /\ StartsAt(LowerStr(s), i, w)
        /\ (i = 1 \/ ~IsWordChar(s[i - 1]))
        /\ (i + Len(w) > Len(s) \/ ~IsWordChar(s[i + Len(w)]))}

\* the indices where w occurs in s, in any case, inside a longer word
InsideWordAt(s, w) ==
    {i \in 1..Len(s) : StartsAt(LowerStr(s), i, w)} \ WordAt(s, w)

\* the fixed set of colour keywords and their hex codes
ColorTable == {
    [kw |-> <<"w", "h", "i", "t", "e">>, hex |-> <<"#", "f", "f", "f", "f", "f", "f">>],
    [kw |-> <<"b", "l", "a", "c", "k">>, hex |-> <<"#", "0", "0", "0", "0", "0", "0">>],
    [kw |-> <<"r", "e", "d">>, hex |-> <<"#", "f", "f", "0", "0", "0", "0">>],
    [kw |-> <<"b", "l", "u", "e">>, hex |-> <<"#", "0", "0", "0", "0", "f", "f">>],
    [kw |-> <<"g", "r", "e", "e", "n">>, hex |-> <<"#", "0", "0", "8", "0", "0", "0">>],
    [kw |-> <<"g", "r", "a", "y">>, hex |-> <<"#", "8", "0", "8", "0", "8", "0">>],
    [kw |-> <<"g", "r", "e", "y">>, hex |-> <<"#", "8", "0", "8", "0", "8", "0">>] }

\* C9: when the input holds a colour keyword as a whole word, in any case,
\* the output holds its hex code and no whole-word instance of the keyword,
\* while occurrences inside longer identifiers are left as they were.
C9_ColorKeywordsToHex ==
    norm_pc = "done" =>
        \A c \in ColorTable :
            /\ (WordAt(norm_in, c.kw) # {} =>
                    /\ Contains(norm_out, c.hex)
                    /\ WordAt(norm_out, c.kw) = {})
            /\ Cardinality(InsideWordAt(norm_out, c.kw))
                   = Cardinality(InsideWordAt(norm_in, c.kw))

\* the declaration fix_th_background injects
S_bg_decl == <<"b", "a", "c", "k", "g", "r", "o", "u", "n", "d", ":", " ",
               "#", "6", "6", "7", "e", "e", "a", ";">>

\* the header-cell tags of s, in order: the texts <th ...> that are not
\* <thead ...>
RECURSIVE ThTagsFrom(_, _)
ThTagsFrom(s, i) ==
    LET M == {j \in i..Len(s) : ThMatch(s, j) # 0}
    IN IF M = {} THEN <<>>
       ELSE LET j == Least(M)
            IN <<SubSeq(s, j, ThMatch(s, j))>> \o ThTagsFrom(s, ThMatch(s, j) + 1)

ThTags(s) == ThTagsFrom(s, 1)

\* the <thead ...> tags of s, in order
RECURSIVE TheadTagsFrom(_, _)
TheadTagsFrom(s, i) ==
    LET M == {j \in i..Len(s) :
                StartsAt(s, j, S_thead) /\ FirstGt(s, j) # 0}
    IN IF M = {} THEN <<>>
       ELSE LET j == Least(M)
            IN <<SubSeq(s, j, FirstGt(s, j))>> \o TheadTagsFrom(s, FirstGt(s, j) + 1)

TheadTags(s) == TheadTagsFrom(s, 1)

\* the tag carries a background declaration
HasBackground(tag) == Contains(LowerStr(tag), S_background)

\* how often sub occurs in s
Occurrences(s, sub) == Cardinality({i \in 1..Len(s) : StartsAt(s, i, sub)})

\* C10: every header-cell tag of the input without a background declaration
\* carries the injected declaration exactly once in the output, one that has
\* a background declaration is left unchanged, and <thead> tags are never
\* modified.
C10_ThBackgroundOnce ==
    norm_pc = "done" =>
        LET tin == ThTags(norm_in)
            tout == ThTags(norm_out)
        IN /\ Len(tout) = Len(tin)
           /\ \A k \in 1..Len(tin) :
                IF HasBackground(tin[k])
                  THEN tout[k] = tin[k]
                  ELSE Occurrences(tout[k], S_bg_decl) = 1
           /\ TheadTags(norm_out) = TheadTags(norm_in)

\* C11: the normalizer is idempotent: normalizing its own output changes
\* nothing, for every input, also where the header-background rule and the
\* whitespace rules act on the same markup.
C11_Idempotent ==
    norm_pc = "twice" => norm_twice = norm_out

\* a row whose header cell gained a background and lost the whitespace in
\* front of it, normalized twice
C11_Witness ==
    /\ norm_pc = "twice"
    /\ norm_in = E_tr \o E_space \o E_th_color
    /\ norm_out # norm_in
    /\ Contains(norm_out, S_tr \o <<">">> \o S_th \o <<" ">> \o S_style_bg)
    /\ norm_twice = norm_out

----------------------------------------------------------------------------
(* extract_keywords_from_markdown (lines 743-772).  A character outside
   ASCII is written as the name of its code point, one sequence element
   per character: U+FF1A is the full-width colon, U+3001 the ideographic
   comma, U+FF0C the full-width comma. *)

TitlePhrases == 3
MaxKeywordLen == 15
MaxKeywords == 4

\* [：:] of both patterns
IsColon(c) == c \in {"U+FF1A", ":"}

\* [、，,] of re.split
IsPhraseSep(c) == c \in {"U+3001", "U+FF0C", ","}

\* the label of the headline pattern (line 760)
S_headline ==
    <<"U+4ECA", "U+65E5", "U+5934", "U+6761">>

S_Claude == <<"C", "l", "a", "u", "d", "e">>
S_GPT == <<"G", "P", "T">>
S_OpenAI == <<"O", "p", "e", "n", "A", "I">>
S_Anthropic == <<"A", "n", "t", "h", "r", "o", "p", "i", "c">>
S_AI_Agent == <<"A", "I", " ", "A", "g", "e", "n", "t">>
S_LLM == <<"L", "L", "M">>

\* line 765
ai_keywords == <<S_Claude, S_GPT, S_OpenAI, S_Anthropic, S_AI_Agent, S_LLM>>

\* index of the first "|" at or after j, 0 when there is none: where
\* [^|]+ has to end
FirstBar(s, j) ==
    LET P == {p \in j..Len(s) : s[p] = "|"}
    IN IF P = {} THEN 0 ELSE Least(P)

\* index of the first colon at or after j, 0 when there is none: where
\* [^：:]+ has to end
FirstColon(s, j) ==
    LET P == {p \in j..Len(s) : IsColon(s[p])}
    IN IF P = {} THEN 0 ELSE Least(P)

\* index of the last character of the line that holds index j: where a
\* greedy .+ ends
LineEnd(s, j) ==
    LET P == {p \in j..Len(s) : s[p] = "\n"}
    IN IF P = {} THEN Len(s) ELSE Least(P) - 1

\* \s*(.+) after the colon at index c: \s* takes as much white space as
\* leaves one character of the line for .+; the index where the group
\* starts, 0 when the pattern cannot match
GroupStart(s, c) ==
    LET P == {e \in (c + 1)..SkipSpace(s, c + 1) :
                 e <= Len(s) /\ s[e] # "\n"}
    IN IF P = {} THEN 0 ELSE CHOOSE e \in P : \A q \in P : q <= e

\* line 748: ^#\s+[^|]+\|[^：:]+[：:]\s*(.+)$ matches with its "#" at
\* index i (re.MULTILINE: ^ is the start of a line)
TitleMatchAt(s, i) ==
    /\ i = 1 \/ s[i - 1] = "\n"
    /\ s[i] = "#"
    /\ i + 1 <= Len(s)
    /\ IsSpace(s[i + 1])
    /\ LET k == FirstBar(s, i + 2)
       IN /\ k >= i + 3
          /\ LET c == FirstColon(s, k + 1)
             IN c >= k + 2 /\ GroupStart(s, c) # 0

\* line 750: group(1) of the leftmost match
TitleGroup(s, i) ==
    LET c == FirstColon(s, FirstBar(s, i + 2) + 1)
        g == GroupStart(s, c)
    IN SubSeq(s, g, LineEnd(s, g))

\* line 752: re.split(r'[、，,]', title_part)
RECURSIVE SplitFrom(_, _)
SplitFrom(s, i) ==
    LET M == {j \in i..Len(s) : IsPhraseSep(s[j])}
    IN IF M = {} THEN <<SubSeq(s, i, Len(s))>>
       ELSE <<SubSeq(s, i, Least(M) - 1)>> \o SplitFrom(s, Least(M) + 1)

Split(s) == SplitFrom(s, 1)

\* str.strip()
Strip(s) ==
    LET P == {p \in 1..Len(s) : ~IsSpace(s[p])}
    IN IF P = {} THEN <<>>
       ELSE SubSeq(s, Least(P), CHOOSE p \in P : \A q \in P : q <= p)

\* the slice x[:n]
Take(x, n) == SubSeq(x, 1, IF Len(x) < n THEN Len(x) ELSE n)

\* line 755: if phrase and len(phrase) <= 15
KeepPhrase(phrase) == phrase # <<>> /\ Len(phrase) <= MaxKeywordLen

\* lines 748-756: the keywords taken from the title line
TitleKeywords(markdown) ==
    LET M == {i \in 1..Len(markdown) : TitleMatchAt(markdown, i)}
    IN IF M = {} THEN <<>>
       ELSE LET phrases == Take(Split(TitleGroup(markdown, Least(M))),
                                TitlePhrases)
                stripped == [k \in 1..Len(phrases) |-> Strip(phrases[k])]
            IN SelectSeq(stripped, KeepPhrase)

\* lines 760-762: 今日头条[：:]\s*(.+), its group stripped and cut to 15
HeadlineKeywords(markdown) ==
    LET c(i) == i + Len(S_headline)
        M == {i \in 1..Len(markdown) :
                 /\ StartsAt(markdown, i, S_headline)
                 /\ c(i) <= Len(markdown)
                 /\ IsColon(markdown[c(i)])
                 /\ GroupStart(markdown, c(i)) # 0}
    IN IF M = {} THEN <<>>
       ELSE LET g == GroupStart(markdown, c(Least(M)))
            IN <<Take(Strip(SubSeq(markdown, g, LineEnd(markdown, g))),
                      MaxKeywordLen)>>

\* lines 766-770: the loop over ai_keywords from its n-th entry on
RECURSIVE AddAiKeywords(_, _, _)
AddAiKeywords(keywords, markdown, n) ==
    IF n > Len(ai_keywords) THEN keywords
    ELSE LET kw == ai_keywords[n]
         IN IF /\ Contains(LowerStr(markdown), LowerStr(kw))
               /\ \A k \in 1..Len(keywords) : keywords[k] # kw
              THEN LET more == Append(keywords, kw)
                   IN IF Len(more) >= MaxKeywords THEN more
                      ELSE AddAiKeywords(more, markdown, n + 1)
              ELSE AddAiKeywords(keywords, markdown, n + 1)

\* lines 743-772
ExtractKeywordsFromMarkdown(markdown) ==
    LET title == TitleKeywords(markdown)
        keywords == IF title # <<>> THEN title
                    ELSE HeadlineKeywords(markdown)
    IN Take(AddAiKeywords(keywords, markdown, 1), MaxKeywords)

(* The function on its own: documents put together from at most
   MaxPieces pieces of a title line and of the text below it *)

MaxPieces == 4

\* the start of a title line: prefix, bar, date, colon
P_title ==
    <<"U+524D", "U+7F00", " ", "|", " ", "2", "0", "2", "6", "-", "0", "1",
      "-", "1", "6", "U+FF1A">>
\* the same as a level-one heading
P_heading ==
    <<"#", " ", "U+524D", "U+7F00", " ", "|", " ", "2", "0", "2", "6", "-",
      "0", "1", "-", "1", "6", "U+FF1A">>
\* a phrase of 8 characters
P_phrase1 ==
    <<"C", "l", "a", "u", "d", "e", "U+6CC4", "U+5BC6">>
\* a phrase of 16 characters
P_phrase2 ==
    <<"G", "i", "t", "H", "u", "b", " ", "A", "c", "t", "i", "o", "n", "s",
      "U+88AB", "U+9A82">>
\* a phrase of 9 characters that names nothing of ai_keywords
P_phrase3 ==
    <<"R", "u", "s", "t", " ", "1", ".", "8", "5">>
\* the separator of title phrases
P_sep ==
    <<"U+3001">>
\* the end of a line
P_newline ==
    <<"\n">>
\* the headline label with its colon
P_headline ==
    <<"U+4ECA", "U+65E5", "U+5934", "U+6761", "U+FF1A">>
\* text that names an entry of ai_keywords
P_openai ==
    <<" ", "O", "p", "e", "n", "A", "I", " ">>

Pieces == {P_title, P_heading, P_phrase1, P_phrase2, P_phrase3, P_sep,
           P_newline, P_headline, P_openai}

\* daily_task passes digest.get("markdown", "") (line 798)
KwInputs ==
    {Flatten(es) : es \in UNION {[1..n -> Pieces] : n \in 0..MaxPieces}}

InitKw ==
    /\ CliIdle
    /\ RunIdle
    /\ PubInit
    /\ NormIdle
    /\ kw_in \in KwInputs
    /\ kw_out = <<>>
    /\ kw_pc = "input"

\* line 798: keywords = extract_keywords_from_markdown(...)
KwExtract ==
    /\ kw_pc = "input"
    /\ kw_out' = ExtractKeywordsFromMarkdown(kw_in)
    /\ kw_pc' = "done"
    /\ UNCHANGED <<kw_in, cli_vars, run_vars, pub_vars, norm_vars>>

NextKw == KwExtract

SpecKw == InitKw /\ [][NextKw]_vars

\* the phrases ps joined by the separator
RECURSIVE JoinPhrases(_)
JoinPhrases(ps) ==
    IF Len(ps) = 1 THEN ps[1]
    ELSE ps[1] \o P_sep \o JoinPhrases(Tail(ps))

TitlePhraseLists ==
    UNION {[1..n -> {P_phrase1, P_phrase2, P_phrase3}] : n \in 1..2}

\* C12: for a document whose title line is "<prefix> | <date>：p1、p2…"
\* the function returns exactly the title phrases of at most 15 characters,
\* in their order and nothing else; and the title line
\* "前缀 | 2026-01-16：Claude泄密、GitHub Actions被骂" (no "# " in front,
\* characters beyond ASCII by code point below) yields the two phrases
\* "Claude泄密" and "GitHub Actions被骂".
C12_TitlePhrasesExactly ==
    kw_pc = "done" =>
        /\ \A start \in {P_title, P_heading} : \A ps \in TitlePhraseLists :
             kw_in = start \o JoinPhrases(ps) =>
                 kw_out = SelectSeq(ps, LAMBDA x : Len(x) <= MaxKeywordLen)
        /\ kw_in = P_title \o P_phrase1 \o P_sep \o P_phrase2 =>
             kw_out = <<P_phrase1, P_phrase2>>

----------------------------------------------------------------------------
(* The order of the publisher's requests *)

\* the operations of the first n requests of a complete run
StepOrder == <<"upload", "draft", "submit">>

\* the position of an operation in that order
StepIndex(op) == CHOOSE k \in 1..Len(StepOrder) : StepOrder[k] = op

\* C13: the requests of one WeChatPublisher.run are upload, draft, submit in
\* this order and each at most once; the draft request carries the media id
\* the upload returned and the submit request the media id the draft call
\* returned; when a step raises no later request is made and no Publish
\* Record is returned; a returned record follows all three requests.
C13_StepsInOrder ==
    /\ Len(api_log) <= Len(StepOrder)
    /\ \A k \in 1..Len(api_log) : api_log[k].op = StepOrder[k]
    /\ Len(api_log) >= 2 =>
          /\ thumb_media_id \in MediaValues \ {Absent}
          /\ api_log[2].arg = thumb_media_id
    /\ Len(api_log) >= 3 =>
          /\ draft_media_id \in MediaValues \ {Absent}
          /\ api_log[3].arg = draft_media_id
    /\ call_result.raised =>
          /\ Len(api_log) = StepIndex(call_result.op)
                              - (IF call_result.token_failed THEN 1 ELSE 0)
          /\ task_pc = "done"
          /\ ~pub_record.returned
    /\ pub_record.returned =>
          /\ Len(api_log) = Len(StepOrder)
          /\ pub_record.thumb_media_id = api_log[2].arg
          /\ pub_record.draft_media_id = api_log[3].arg

\* the draft reply lacks "media_id": the run ended after two requests, the
\* second with the uploaded cover's id, and without a record
C13_Witness ==
    /\ call_result.op = "draft"
    /\ call_result.raised
    /\ ~call_result.token_failed
    /\ Len(api_log) = 2
    /\ api_log[1].op = "upload"
    /\ api_log[2].op = "draft"
    /\ api_log[2].arg = "s:M1"
    /\ task_pc = "done"
    /\ ~pub_record.returned

----------------------------------------------------------------------------
(* The two length checks of TechDigestAgent.run *)

\* C14: the acceptance test of the loop and the shortfall check after it
\* agree for every markup length: when run returns, the "no valid HTML"
\* error was logged if and only if no attempt was accepted by the loop.
C14_ChecksAgree ==
    run_pc = "returned" =>
        (error_logged <=> \A k \in 1..Len(hist) : ~Passing(hist[k]))

----------------------------------------------------------------------------
(* Exceptions of generate_digest inside the retry loop *)

\* C15: an exception of generate_digest on an attempt before the last is
\* swallowed and the next attempt is made; one on the last attempt
\* (attempt = max_retries) leaves run with no file written and nothing
\* returned, also when an earlier attempt had returned a digest; run gets
\* past the loop only if the last attempt it made did not raise.
C15_LastExceptionPropagates ==
    /\ \A k \in 1..Len(hist) :
         hist[k].raised =>
            IF k < max_retries
              THEN \/ Len(hist) > k
                   \/ run_pc = "loop" /\ attempt = k + 1
              ELSE /\ k = Len(hist)
                   /\ run_pc = "raised"
    /\ run_pc = "raised" =>
          ~md_written /\ ~html_written /\ ~ret.returned
    /\ run_pc \in {"persist", "returned"} =>
          Len(hist) >= 1 /\ ~hist[Len(hist)].raised

\* three attempts: a digest too short, an exception that is swallowed, an
\* exception that ends the run without a file
C15_Witness ==
    /\ run_pc = "raised"
    /\ max_retries = 3
    /\ Len(hist) = 3
    /\ ~hist[1].raised
    /\ hist[2].raised
    /\ hist[3].raised
    /\ digest.present
    /\ digest.by = 1
    /\ ~md_written
    /\ ~html_written

====
